---- MODULE Spec2Model ----
(***************************************************************************)
(* A model of the variational-Bayes driver of vireoSNP                     *)
(* (src/vireoSNP/utils/vireo_model.py): vireo_core, update_VB, the doublet *)
(* augmentation and the multi-restart driver vireo_flock.                  *)
(*                                                                         *)
(* Numbers.  Probabilities are exact fractions held as integers:           *)
(*   ID_prob entries      in units of 1/Unit,                              *)
(*   GT_prob entries      in units of 1/NGeno,                             *)
(*   GT_both entries      in units of 1/(NGeno*NGeno),                     *)
(*   theta_shapes entries in units of 1/ThetaDen,                          *)
(*   Psi entries          as pairs <<numerator, denominator>>.             *)
(* The engines of vireo_base (get_ID_prob, get_GT_prob, VB_lower_bound)    *)
(* are not part of the sources; they are modelled from their contracts as  *)
(* the set of results they may return.                                     *)
(***************************************************************************)
EXTENDS Integers, Sequences, FiniteSets, TLC

\* ------------------------------------------------------------- bounds
MaxDonor == 3      \* donor counts 1..MaxDonor (n_donor, donors of GT_prior)
MaxIter == 3       \* max_iter ranges over 1..MaxIter
MaxLB == 1         \* the ELBO takes the values 0..MaxLB
Unit == 2          \* resolution of an assignment probability: k/Unit

\* ------------------------------------------------- program constants
NGeno == 3         \* genotype states of one donor (np.ones((n_var, 3, n_donor)))
NGenoBoth == 5     \* genotype categories of the doublet-augmented space
ThetaTenths == 10  \* the default theta_prior is written in tenths

\* An optional value: None, or Some(x), read back as x[1].
None == << >>
Some(x) == <<x>>
\* The "raised" field of a result that raised nothing.
NoExc == "none"

ThetaDen == ThetaTenths * NGeno * Unit

\* ------------------------------------------------------------ helpers
RECURSIVE SeqSum(_)
SeqSum(s) == IF Len(s) = 0 THEN 0 ELSE Head(s) + SeqSum(Tail(s))

\* Python s[a:b] for 0 <= a, on a sequence (indices 0-based, b exclusive).
Slice(s, a, b) ==
    LET hi == IF b > Len(s) THEN Len(s) ELSE b
    IN  IF a >= hi THEN << >> ELSE [i \in 1..(hi - a) |-> s[a + i]]

Zeros(n) == [i \in 1..n |-> 0]

\* Rows of K probabilities (units of 1/Unit) that sum to one and put their
\* mass on the first and on the last column only: the sample of the simplex
\* that the assignment engine is taken to return.
SimplexRows(K) ==
    IF K = 0 THEN {<< >>}
    ELSE IF K = 1 THEN {<<Unit>>}
    ELSE {[i \in 1..K |-> IF i = 1 THEN Unit - m ELSE IF i = K THEN m ELSE 0] :
              m \in 0..Unit}

IDMatrices(n_cell, K) == [1..n_cell -> SimplexRows(K)]

\* tensor_normalize(np.random.rand(n_cell, K), axis=1): the draws are
\* positive, so both sampled columns of a row are.
RandomRows(K) ==
    IF K <= 1 THEN SimplexRows(K)
    ELSE {r \in SimplexRows(K) : r[1] > 0 /\ r[K] > 0}
RandomIDMatrices(n_cell, K) == [1..n_cell -> RandomRows(K)]

\* A caller's ID_prob_init holds numbers k/Unit + f * 10**-10, written <<k, f>>
\* (f counts entries raised to the floor 10**-10, far below 1/Unit).
SeedVal(k) == <<k, 0>>
SeedLess(x, y) == x[1] < y[1] \/ (x[1] = y[1] /\ x[2] < y[2])
SeedMatrix(m) == [c \in 1..Len(m) |-> [j \in 1..Len(m[c]) |-> SeedVal(m[c][j])]]

\* ------------------------------------------------------------ tensors
\* A genotype tensor: shape as numpy reports it, d[v][donor] the tuple of
\* genotype-state probabilities of that donor at variant v.
Tensor3(n_var, n_geno, cols) ==
    [shape |-> <<n_var, n_geno, Len(cols)>>, d |-> [v \in 1..n_var |-> cols]]

NDim(T) == Len(T.shape)
Donors(T) == T.shape[3]

UniformCol == [g \in 1..NGeno |-> 1]
HardCol(k) == [g \in 1..NGeno |-> IF g = ((k - 1) % NGeno) + 1 THEN NGeno ELSE 0]

\* A genotype prior of k donors that leaves every genotype open.
SoftPrior(n_var, k) == Tensor3(n_var, NGeno, [j \in 1..k |-> UniformCol])
\* A genotype prior of k donors that fixes donor j to one genotype.
HardPrior(n_var, k) == Tensor3(n_var, NGeno, [j \in 1..k |-> HardCol(j)])
\* A prior handed over as a (variants x 3) matrix: it has no donor axis.
Bad2D(n_var) == [shape |-> <<n_var, NGeno>>, d |-> [v \in 1..n_var |-> UniformCol]]

\* np.append(A, B, axis=2) on two genotype tensors of equal category count.
AppendDonors(A, B) ==
    [shape |-> <<A.shape[1], A.shape[2], A.shape[3] + B.shape[3]>>,
     d |-> [v \in 1..A.shape[1] |-> A.d[v] \o B.d[v]]]

\* ----------------------------------------------- engines (vireo_base)
\* tensor_normalize along the axis of a tuple: x / sum, in units of 1/den.
tensor_normalize(row, den) ==
    [i \in 1..Len(row) |-> (row[i] * den) \div SeqSum(row)]

\* tensor_normalize of a row of ID_prob_init, to the resolution 1/Unit: a
\* floor entry beside entries of size k/Unit rounds to 0.
seed_normalize(row) ==
    LET ks == [i \in 1..Len(row) |-> row[i][1]]
        fs == [i \in 1..Len(row) |-> row[i][2]]
    IN  IF SeqSum(ks) > 0 THEN tensor_normalize(ks, Unit)
        ELSE tensor_normalize(fs, Unit)

\* get_ID_prob: one row per cell, one column per donor identity of GT_both,
\* every row summing to one.  Its arithmetic needs one Beta row per genotype
\* category and one mixing weight per donor identity.
get_ID_prob_fits(GT_both, theta_both, Psi_both) ==
    /\ Len(theta_both) = GT_both.shape[2]
    /\ Len(Psi_both) = Donors(GT_both)

get_ID_prob(AD, DP, GT_both, theta_both, Psi_both) ==
    IDMatrices(Len(AD[1]), Donors(GT_both))

\* Every donor column that gives genotype g a positive probability is
\* resolved to genotype g; the other columns are kept.
Sharpen(T, g) ==
    [T EXCEPT !.d = [v \in 1..T.shape[1] |->
        [j \in 1..T.shape[3] |->
            IF T.d[v][j][g] > 0
            THEN [h \in 1..NGeno |-> IF h = g THEN NGeno ELSE 0]
            ELSE T.d[v][j]]]]

\* get_GT_prob: Bayes' rule per (variant, donor): a posterior of the shape
\* of GT_prior, normalised over the genotype axis, that is zero wherever the
\* prior is zero.  The posteriors sampled: no evidence (the prior itself), or
\* every open donor resolved to the first genotype.
get_GT_prob(AD, DP, ID_prob, theta_shapes, GT_prior) ==
    {GT_prior, Sharpen(GT_prior, 1)}

\* Expected successes (k = 1) and failures (k = 2) of genotype g: the sum over
\* variants, cells and donors of the count weighted by ID_prob * GT_prob, in
\* units of 1/ThetaDen.
Stat(AD, DP, ID_prob, GT_prob, g, k) ==
    LET n_var == Len(AD)
        n_cell == Len(AD[1])
        n == Donors(GT_prob)
        cnt(v, c) == IF k = 1 THEN AD[v][c] ELSE DP[v][c] - AD[v][c]
        term(i) ==
            LET v == (i \div (n_cell * n)) + 1
                c == ((i \div n) % n_cell) + 1
                j == (i % n) + 1
            IN  cnt(v, c) * ID_prob[c][j] * GT_prob.d[v][j][g] * ThetaTenths
    IN  SeqSum([i \in 1..(n_var * n_cell * n) |-> term(i - 1)])

\* get_theta_shapes(AD, DP, ID_prob, GT_prob, theta_prior): the conjugate
\* update, its last argument plus the expected successes and failures.
get_theta_shapes(AD, DP, ID_prob, GT_prob, prior) ==
    [g \in 1..Len(prior) |->
        <<prior[g][1] + Stat(AD, DP, ID_prob, GT_prob, g, 1),
          prior[g][2] + Stat(AD, DP, ID_prob, GT_prob, g, 2)>>]

\* VB_lower_bound: a scalar.
VB_lower_bound == 0..MaxLB

\* ------------------------------------------------ doublet augmentation
\* list(permutations(range(n), 2)): the ordered pairs of distinct donors, in
\* lexicographic order (donors numbered from 1 here).
permutations2(n) ==
    [k \in 1..(n * (n - 1)) |->
        LET i == ((k - 1) \div (n - 1)) + 1
            r == ((k - 1) % (n - 1)) + 1
        IN  <<i, IF r < i THEN r ELSE r + 1>>]

\* The five categories of a donor pair from the two donors' three states,
\* before normalisation (units of 1/(NGeno*NGeno)).
PairCol(a, b) ==
    <<a[1] * b[1],
      a[1] * b[3] + a[2] * b[2] + a[3] * b[1],
      a[3] * b[3],
      a[1] * b[2] + a[2] * b[1],
      a[2] * b[3] + a[3] * b[2]>>

add_doublet_GT(GT_prob) ==
    LET db_idx == permutations2(Donors(GT_prob))
        n_var == GT_prob.shape[1]
        GT_prob2 ==
            [shape |-> <<n_var, NGenoBoth, Len(db_idx)>>,
             d |-> [v \in 1..n_var |->
                 [k \in 1..Len(db_idx) |->
                     tensor_normalize(
                         PairCol(GT_prob.d[v][db_idx[k][1]],
                                 GT_prob.d[v][db_idx[k][2]]),
                         NGeno * NGeno)]]]
        GT_prob1 ==
            [shape |-> <<n_var, NGenoBoth, Donors(GT_prob)>>,
             d |-> [v \in 1..n_var |->
                 [j \in 1..Donors(GT_prob) |->
                     [h \in 1..NGeno |-> GT_prob.d[v][j][h] * NGeno]
                         \o Zeros(NGenoBoth - NGeno)]]]
    IN  AppendDonors(GT_prob1, GT_prob2)

\* The integer square root, by bisection on lo..hi.
RECURSIVE Isqrt(_, _, _)
Isqrt(x, lo, hi) ==
    IF lo >= hi THEN lo
    ELSE LET mid == (lo + hi + 1) \div 2
         IN  IF mid * mid <= x THEN Isqrt(x, mid, hi) ELSE Isqrt(x, lo, mid - 1)

\* add_doublet_theta: two Beta rows for the mixed states 0&1 and 1&2, the
\* mean of the two neighbours' normalised shapes scaled by the geometric mean
\* of their totals (rounded down to the resolution 1/ThetaDen).
add_doublet_theta(theta_shapes) ==
    LET row(ii) ==
            LET a == theta_shapes[ii]
                b == theta_shapes[ii + 1]
                sa == a[1] + a[2]
                sb == b[1] + b[2]
                shape_sum == Isqrt(sa * sb, 0, sa + sb)
            IN  [k \in 1..2 |->
                    IF shape_sum = 0 THEN 0
                    ELSE (a[k] * sb + b[k] * sa) \div (2 * shape_sum)]
    IN  theta_shapes \o [ii \in 1..2 |-> row(ii)]

\* -------------------------------------------------------------- update_VB
\* Psi entries are fractions <<numerator, denominator>>.
FracMul(p, q) == <<p[1] * q[1], p[2] * q[2]>>

\* One update of the variational factors: the set of results update_VB may
\* return, or the exception it raises.
update_VB(AD, DP, GT_prob, theta_shapes, theta_prior, GT_prior, Psi, doublet_prior, learn_GT, learn_theta, check_doublet) ==
    LET n == Donors(GT_prob)
        GT_both == IF check_doublet THEN add_doublet_GT(GT_prob) ELSE GT_prob
        theta_both == IF check_doublet THEN add_doublet_theta(theta_shapes)
                      ELSE theta_shapes
        dbl == IF doublet_prior = None
               THEN <<Donors(GT_both) - n, Donors(GT_both)>>
               ELSE doublet_prior[1]
        Psi_both ==
            IF check_doublet
            THEN [k \in 1..Donors(GT_both) |->
                     IF k <= n THEN FracMul(Psi[k], <<dbl[2] - dbl[1], dbl[2]>>)
                     ELSE dbl]
            ELSE Psi
    IN  IF check_doublet /\ n < 2
        THEN {[raised |-> "IndexError"]}
        ELSE IF check_doublet /\ Len(Psi) # n
        THEN {[raised |-> "ValueError"]}
        ELSE IF ~get_ID_prob_fits(GT_both, theta_both, Psi_both)
        THEN {[raised |-> "ValueError"]}
        ELSE
        UNION {
          LET ID_prob == [c \in 1..Len(ID_prob2) |-> Slice(ID_prob2[c], 0, n)]
          IN  UNION {
                LET theta_new ==
                        IF learn_theta
                        THEN get_theta_shapes(AD, DP, ID_prob, GT_new,
                                              theta_shapes)
                        ELSE theta_shapes
                IN  {[raised |-> NoExc, ID_prob2 |-> ID_prob2,
                      GT_prob |-> GT_new, theta_shapes |-> theta_new,
                      LB_val |-> lb] : lb \in VB_lower_bound}
                : GT_new \in (IF learn_GT
                              THEN get_GT_prob(AD, DP, ID_prob, theta_shapes,
                                               GT_prior)
                              ELSE {GT_prob}) }
          : ID_prob2 \in get_ID_prob(AD, DP, GT_both, theta_both, Psi_both) }

\* ------------------------------------------------------- vireo_core: Init
\* The default theta_prior [[0.1, 99.9], [50, 50], [99.9, 0.1]].
theta_prior_default ==
    LET k == NGeno * Unit
    IN  << <<1 * k, 999 * k>>, <<500 * k, 500 * k>>, <<999 * k, 1 * k>> >>

\* Lines 89-94: the donor count from the argument or from GT_prior.
resolve_n_donor(a) ==
    IF a.n_donor = None
    THEN IF a.GT_prior = None
         THEN [status |-> "AttributeError", n_donor |-> None]
         ELSE IF NDim(a.GT_prior[1]) < 3 \/ Donors(a.GT_prior[1]) < 2
         THEN [status |-> "SystemExit", n_donor |-> None]
         ELSE [status |-> "ok", n_donor |-> Some(Donors(a.GT_prior[1]))]
    ELSE [status |-> "ok", n_donor |-> a.n_donor]

\* Lines 108-111: the mixing weights, uniform or the caller's renormalised.
init_Psi(Psi, n_donor) ==
    IF Psi = None
    THEN [j \in 1..n_donor |-> <<1, n_donor>>]
    ELSE LET head == Slice(Psi[1], 0, n_donor)
         IN  [j \in 1..Len(head) |-> <<head[j], SeqSum(head)>>]

\* A variant of the reconciliation below in which a complete prior does not
\* fix GT_prob: it is resolved wherever the first cell's start has mass on the
\* first donor.
reconcile_GT_prior_reads_start(L) ==
    IF Donors(L.GT_prior) < L.n_donor
    THEN LET padded == AppendDonors(L.GT_prior,
                 SoftPrior(L.GT_prior.shape[1], L.n_donor - Donors(L.GT_prior)))
         IN  [L EXCEPT !.GT_prior = padded, !.GT_prob = padded,
                       !.learn_GT = TRUE,
                       !.stdout = IF L.learn_GT = FALSE
                                  THEN Append(@, "GT_prior is not complete")
                                  ELSE @]
    ELSE IF Donors(L.GT_prior) > L.n_donor
    THEN [L EXCEPT !.n_donor = Donors(L.GT_prior),
                   !.stdout = Append(@, "Warning: n_donor is smaller")]
    ELSE [L EXCEPT !.GT_prob = IF L.ID_prob[1][1] > 0
                               THEN Sharpen(L.GT_prior, 1) ELSE L.GT_prior]

\* Lines 129-140: GT_prior against n_donor.  A prior with fewer donors is
\* padded with uniform columns and replaces GT_prob; a prior with more donors
\* replaces n_donor.
reconcile_GT_prior(L) ==
    IF Donors(L.GT_prior) < L.n_donor
    THEN LET padded == AppendDonors(L.GT_prior,
                 SoftPrior(L.GT_prior.shape[1], L.n_donor - Donors(L.GT_prior)))
         IN  [L EXCEPT !.GT_prior = padded, !.GT_prob = padded,
                       !.learn_GT = TRUE,
                       !.stdout = IF L.learn_GT = FALSE
                                  THEN Append(@, "GT_prior is not complete")
                                  ELSE @]
    ELSE IF Donors(L.GT_prior) > L.n_donor
    THEN [L EXCEPT !.n_donor = Donors(L.GT_prior),
                   !.stdout = Append(@, "Warning: n_donor is smaller")]
    ELSE L

\* Lines 86-143: the locals of vireo_core when the loop is reached, or the
\* way the call ended before it.  A set: the random ID_prob and the result of
\* get_GT_prob are not determined by the arguments.
vireo_core_Init(a) ==
    LET r == resolve_n_donor(a)
        n_var == Len(a.AD)
        n_cell == Len(a.AD[1])
        stopped(status, out) ==
            [status |-> status, stdout |-> out]
    IN  IF r.status = "SystemExit"
        THEN {stopped(r.status, <<"Error: no n_donor and GT_prior has < 2 donors.">>)}
        ELSE IF r.status # "ok" THEN {stopped(r.status, << >>)}
        ELSE
        LET n_donor == r.n_donor[1]
            theta_prior == IF a.theta_prior = None THEN theta_prior_default
                           ELSE a.theta_prior[1]
            theta_shapes == IF a.theta_init = None THEN theta_prior
                            ELSE a.theta_init[1]
            Psi == init_Psi(a.Psi, n_donor)
            IDs == IF a.ID_prob_init = None
                   THEN RandomIDMatrices(n_cell, n_donor)
                   ELSE {[c \in 1..Len(a.ID_prob_init[1]) |->
                            seed_normalize(a.ID_prob_init[1][c])]}
            base(ID_prob) ==
                [status |-> "ok", n_donor |-> n_donor,
                 theta_prior |-> theta_prior, theta_shapes |-> theta_shapes,
                 Psi |-> Psi, ID_prob |-> ID_prob, GT_prior |-> a.GT_prior[1],
                 GT_prob |-> a.GT_prior[1], learn_GT |-> a.learn_GT,
                 stdout |-> << >>]
        IN  IF a.GT_prior = None
            THEN LET uniform == SoftPrior(n_var, n_donor)
                 IN  {reconcile_GT_prior(
                        [status |-> "ok", n_donor |-> n_donor,
                         theta_prior |-> theta_prior,
                         theta_shapes |-> theta_shapes,
                         Psi |-> Psi, ID_prob |-> ID_prob,
                         GT_prior |-> uniform, GT_prob |-> GT_prob,
                         learn_GT |-> TRUE,
                         stdout |-> IF a.learn_GT = FALSE
                                    THEN <<"GT_prior is not given">>
                                    ELSE << >>]) :
                        <<ID_prob, GT_prob>> \in
                            UNION {{<<m, g>> : g \in get_GT_prob(a.AD, a.DP, m,
                                                    theta_shapes, uniform)} :
                                   m \in IDs}}
            ELSE IF NDim(a.GT_prior[1]) < 3
            THEN {stopped("IndexError", << >>)}
            ELSE {reconcile_GT_prior(base(ID_prob)) : ID_prob \in IDs}

\* --------------------------------------------------------------- state
VARIABLES
    pc,            \* where the call is: "call", "loop", "check_doublet",
                   \* "done", "exit" (sys.exit) or "raise" (an exception)
    args,          \* the arguments of the call
    n_donor, theta_prior, theta_shapes, Psi, ID_prob, GT_prior, GT_prob,
    learn_GT,      \* the locals of vireo_core
    LB, it,        \* the ELBO array and the loop index (-1: no round yet)
    stdout,        \* the lines printed so far
    RV,            \* the returned Result Record
    calls,         \* the update_VB calls made so far, oldest first
    \* vireo_flock
    f_pc,          \* "call", "run1", "select", "run2", "done" or "raise"
    f_args,        \* the arguments of the call
    n_donor_run1, ID_prob_list, result, res1, donor_idx, ID_prob_seed,
                   \* the locals of vireo_flock (_donor_idx, _ID_prob)
    core_calls,    \* the arguments of the vireo_core calls made so far
    f_RV           \* the returned Result Record

coreVars == <<pc, args, n_donor, theta_prior, theta_shapes, Psi, ID_prob,
              GT_prior, GT_prob, learn_GT, LB, it, stdout, RV, calls>>
flockVars == <<f_pc, f_args, n_donor_run1, ID_prob_list, result, res1,
               donor_idx, ID_prob_seed, core_calls, f_RV>>
vars == <<coreVars, flockVars>>

\* ---------------------------------------------------- the calls explored
\* One variant, one cell, one alternative read out of two.
CountData == {[AD |-> << <<1>> >>, DP |-> << <<2>> >>]}

\* A caller's theta_init: [[0.3, 29.7], [3, 3], [29.7, 0.3]].
theta_seed ==
    LET k == NGeno * Unit
    IN  Some(<< <<3 * k, 297 * k>>, <<30 * k, 30 * k>>, <<297 * k, 3 * k>> >>)

GTPriors == {None, Some(Bad2D(1)), Some(HardPrior(1, 2))}
                \cup {Some(SoftPrior(1, k)) : k \in 1..MaxDonor}

CoreArgs ==
    [AD : {x.AD : x \in CountData}, DP : {x.DP : x \in CountData},
     n_donor : {None} \cup {Some(k) : k \in 1..MaxDonor},
     GT_prior : GTPriors,
     learn_GT : BOOLEAN, learn_theta : BOOLEAN,
     theta_prior : {None}, theta_init : {None, theta_seed},
     Psi : {None}, ID_prob_init : {None}, doublet_prior : {None},
     check_doublet : BOOLEAN,
     min_iter : 0..1, max_iter : 1..MaxIter, epsilon_conv : {1},
     verbose : BOOLEAN]

\* No call of vireo_core, or none of vireo_flock, is under way.
CoreIdle ==
    /\ args = None
    /\ n_donor = None /\ theta_prior = None /\ theta_shapes = None
    /\ Psi = None /\ ID_prob = None /\ GT_prior = None /\ GT_prob = None
    /\ learn_GT = None /\ LB = None /\ it = -1
    /\ stdout = << >> /\ RV = None /\ calls = << >>
FlockIdle ==
    /\ f_args = None
    /\ n_donor_run1 = None /\ ID_prob_list = << >> /\ result = << >>
    /\ res1 = None /\ donor_idx = None /\ ID_prob_seed = None
    /\ core_calls = << >> /\ f_RV = None

\* A call of vireo_core.
Init ==
    /\ pc = "call"
    /\ args \in CoreArgs
    /\ n_donor = None /\ theta_prior = None /\ theta_shapes = None
    /\ Psi = None /\ ID_prob = None /\ GT_prior = None /\ GT_prob = None
    /\ learn_GT = None /\ LB = None /\ it = -1
    /\ stdout = << >> /\ RV = None /\ calls = << >>
    /\ f_pc = "idle" /\ FlockIdle

\* ------------------------------------------------------------- actions
\* Lines 86-143.
Initialize ==
    /\ pc = "call"
    /\ \E L \in vireo_core_Init(args) :
        /\ pc' = CASE L.status = "ok" -> "loop"
                   [] L.status = "SystemExit" -> "exit"
                   [] OTHER -> "raise"
        /\ stdout' = L.stdout
        /\ IF L.status = "ok"
           THEN /\ n_donor' = L.n_donor
                /\ theta_prior' = L.theta_prior
                /\ theta_shapes' = L.theta_shapes
                /\ Psi' = L.Psi
                /\ ID_prob' = L.ID_prob
                /\ GT_prior' = L.GT_prior
                /\ GT_prob' = L.GT_prob
                /\ learn_GT' = L.learn_GT
                /\ LB' = Zeros(args.max_iter)
           ELSE UNCHANGED <<n_donor, theta_prior, theta_shapes, Psi, ID_prob,
                            GT_prior, GT_prob, learn_GT, LB>>
    /\ UNCHANGED <<args, it, RV, calls, flockVars>>

\* A variant of the test below without the branch for a decreasing bound: a
\* decrease then counts as an improvement below epsilon_conv and ends the loop.
convergence_check_no_decrease_branch(i, lb, min_iter, max_iter, epsilon_conv, verbose) ==
    IF i > min_iter
    THEN IF i = max_iter - 1
         THEN [print |-> IF verbose THEN <<"Warning: VB did not converge!">>
                         ELSE << >>,
               break |-> FALSE]
         ELSE IF lb[i + 1] - lb[i] < epsilon_conv
         THEN [print |-> << >>, break |-> TRUE]
         ELSE [print |-> << >>, break |-> FALSE]
    ELSE [print |-> << >>, break |-> FALSE]
\* Lines 149-157, for round i with the ELBO array lb: what is printed, and
\* whether the loop is left by break.
convergence_check(i, lb, min_iter, max_iter, epsilon_conv, verbose) ==
    IF i > min_iter
    THEN IF lb[i + 1] < lb[i]
         THEN [print |-> IF verbose THEN <<"Warning: Lower bound decreases!">>
                         ELSE << >>,
               break |-> FALSE]
         ELSE IF i = max_iter - 1
         THEN [print |-> IF verbose THEN <<"Warning: VB did not converge!">>
                         ELSE << >>,
               break |-> FALSE]
         ELSE IF lb[i + 1] - lb[i] < epsilon_conv
         THEN [print |-> << >>, break |-> TRUE]
         ELSE [print |-> << >>, break |-> FALSE]
    ELSE [print |-> << >>, break |-> FALSE]

\* Lines 144-157: one round of the loop.
Iterate ==
    /\ pc = "loop"
    /\ LET i == it + 1
       IN  /\ i < args.max_iter
           /\ \E o \in update_VB(args.AD, args.DP, GT_prob, theta_shapes,
                                 theta_prior, GT_prior, Psi, args.doublet_prior,
                                 learn_GT, args.learn_theta, FALSE) :
                /\ it' = i
                /\ calls' = Append(calls, [it |-> i, check_doublet |-> FALSE,
                                           learn_GT |-> learn_GT,
                                           learn_theta |-> args.learn_theta,
                                           raised |-> o.raised,
                                           LB_val |-> IF o.raised = NoExc
                                                      THEN o.LB_val ELSE 0])
                /\ IF o.raised # NoExc
                   THEN /\ pc' = "raise"
                        /\ UNCHANGED <<ID_prob, GT_prob, theta_shapes, LB,
                                       stdout>>
                   ELSE LET lb == [LB EXCEPT ![i + 1] = o.LB_val]
                            chk == convergence_check(i, lb, args.min_iter,
                                       args.max_iter, args.epsilon_conv,
                                       args.verbose)
                        IN  /\ ID_prob' = o.ID_prob2
                            /\ GT_prob' = o.GT_prob
                            /\ theta_shapes' = o.theta_shapes
                            /\ LB' = lb
                            /\ stdout' = stdout \o chk.print
                            /\ pc' = IF chk.break \/ i = args.max_iter - 1
                                     THEN "check_doublet" ELSE "loop"
    /\ UNCHANGED <<args, n_donor, theta_prior, Psi, GT_prior, learn_GT, RV,
                   flockVars>>

\* Lines 172-179.
result_record(id, gt, dbl, theta, lb, i, lb_doublet) ==
    [ID_prob |-> id, GT_prob |-> gt, doublet_prob |-> dbl,
     theta_shapes |-> theta, LB_list |-> Slice(lb, 0, i + 1),
     LB_doublet |-> lb_doublet]

\* A variant of the split below that loses the last doublet column.
split_ID_prob_short(ID_prob2, n) ==
    [ID_prob |-> [c \in 1..Len(ID_prob2) |-> Slice(ID_prob2[c], 0, n)],
     doublet_prob |-> [c \in 1..Len(ID_prob2) |->
                          Slice(ID_prob2[c], n, Len(ID_prob2[c]) - 1)]]
\* Lines 165-166: the split of the doublet-inclusive assignment matrix.
split_ID_prob(ID_prob2, n) ==
    [ID_prob |-> [c \in 1..Len(ID_prob2) |-> Slice(ID_prob2[c], 0, n)],
     doublet_prob |-> [c \in 1..Len(ID_prob2) |->
                          Slice(ID_prob2[c], n, Len(ID_prob2[c]))]]

\* Lines 168-170: the doublet outputs when the pass is disabled.
no_doublet(id, n) ==
    [LB_doublet |-> None,
     doublet_prob |-> [c \in 1..Len(id) |-> Zeros((n * (n - 1)) \div 2)]]

\* Lines 160-166 and 172-179: the doublet-inclusive pass, then the return.
DoubletPass ==
    /\ pc = "check_doublet"
    /\ args.check_doublet
    /\ \E o \in update_VB(args.AD, args.DP, GT_prob, theta_shapes, theta_prior,
                          GT_prior, Psi, args.doublet_prior, TRUE, TRUE, TRUE) :
        /\ calls' = Append(calls, [it |-> it, check_doublet |-> TRUE,
                                   learn_GT |-> TRUE, learn_theta |-> TRUE,
                                   raised |-> o.raised,
                                   LB_val |-> IF o.raised = NoExc
                                              THEN o.LB_val ELSE 0])
        /\ IF o.raised # NoExc
           THEN /\ pc' = "raise"
                /\ UNCHANGED <<ID_prob, GT_prob, theta_shapes, RV>>
           ELSE LET sp == split_ID_prob(o.ID_prob2, n_donor)
                IN  /\ ID_prob' = sp.ID_prob
                    /\ GT_prob' = o.GT_prob
                    /\ theta_shapes' = o.theta_shapes
                    /\ RV' = result_record(sp.ID_prob, o.GT_prob,
                                 sp.doublet_prob, o.theta_shapes, LB, it,
                                 Some(o.LB_val))
                    /\ pc' = "done"
    /\ UNCHANGED <<args, n_donor, theta_prior, Psi, GT_prior, learn_GT, LB, it,
                   stdout, flockVars>>

\* Lines 167-170 and 172-179: no doublet pass, then the return.
SkipDoublet ==
    /\ pc = "check_doublet"
    /\ ~args.check_doublet
    /\ LET nd == no_doublet(ID_prob, n_donor)
       IN  RV' = result_record(ID_prob, GT_prob, nd.doublet_prob,
                               theta_shapes, LB, it, nd.LB_doublet)
    /\ pc' = "done"
    /\ UNCHANGED <<args, n_donor, theta_prior, theta_shapes, Psi, ID_prob,
                   GT_prior, GT_prob, learn_GT, LB, it, stdout, calls,
                   flockVars>>

Next == Initialize \/ Iterate \/ DoubletPass \/ SkipDoublet

Spec == Init /\ [][Next]_vars

\* ------------------------------------------------- vireo_core as one call
\* Lines 79-179 seen from a caller: the results a call may return, or the
\* way it ends without one.  The engines' result sets depend on the loop's
\* state through GT_prior, Psi, the flags and the tensors' shapes only, so
\* the last round of the loop returns what its first round may return.  A
\* result is given by ID_prob, GT_prob, doublet_prob, the last element of
\* LB_list and LB_doublet; theta_shapes is left out.
vireo_core(a) ==
    UNION {
      IF L.status # "ok" THEN {[raised |-> L.status]}
      ELSE UNION {
        IF o.raised # NoExc THEN {[raised |-> o.raised]}
        ELSE IF a.check_doublet
        THEN {IF o2.raised # NoExc THEN [raised |-> o2.raised]
              ELSE LET sp == split_ID_prob(o2.ID_prob2, L.n_donor)
                   IN  [raised |-> NoExc, ID_prob |-> sp.ID_prob,
                        GT_prob |-> o2.GT_prob,
                        doublet_prob |-> sp.doublet_prob,
                        LB_last |-> o.LB_val, LB_doublet |-> Some(o2.LB_val)] :
              o2 \in update_VB(a.AD, a.DP, o.GT_prob, o.theta_shapes,
                               L.theta_prior, L.GT_prior, L.Psi,
                               a.doublet_prior, TRUE, TRUE, TRUE)}
        ELSE LET nd == no_doublet(o.ID_prob2, L.n_donor)
             IN  {[raised |-> NoExc, ID_prob |-> o.ID_prob2,
                   GT_prob |-> o.GT_prob, doublet_prob |-> nd.doublet_prob,
                   LB_last |-> o.LB_val, LB_doublet |-> nd.LB_doublet]}
        : o \in update_VB(a.AD, a.DP, L.GT_prob, L.theta_shapes, L.theta_prior,
                          L.GT_prior, L.Psi, a.doublet_prior, L.learn_GT,
                          a.learn_theta, FALSE) }
      : L \in vireo_core_Init(a) }

\* The stepwise call agrees with vireo_core seen as one call.
CoreCallAgrees ==
    /\ pc = "done" =>
          [raised |-> NoExc, ID_prob |-> RV.ID_prob, GT_prob |-> RV.GT_prob,
           doublet_prob |-> RV.doublet_prob,
           LB_last |-> RV.LB_list[Len(RV.LB_list)],
           LB_doublet |-> RV.LB_doublet] \in vireo_core(args)
    /\ pc \in {"exit", "raise"} =>
          \E x \in vireo_core(args) : x.raised # NoExc

\* ------------------------------------------------------------ vireo_flock
MaxInit == 2            \* n_init ranges over 1..MaxInit
Run1MinIter == 5        \* min_iter of a first-stage run
Run1MaxIter == 10       \* max_iter of a first-stage run
DefaultMinIter == 20    \* vireo_core's default min_iter
DefaultMaxIter == 200   \* vireo_core's default max_iter
\* vireo_core's default epsilon_conv, 1e-2, in the unit of the ELBO values
\* 0..MaxLB: among integers an improvement is below 1e-2 exactly if below 1.
DefaultEps == 1

\* The defaults of vireo_core's keyword arguments (lines 79-83).
core_defaults(AD, DP) ==
    [AD |-> AD, DP |-> DP, n_donor |-> None, GT_prior |-> None,
     learn_GT |-> TRUE, theta_prior |-> None, learn_theta |-> TRUE,
     Psi |-> None, ID_prob_init |-> None, theta_init |-> None,
     doublet_prior |-> None, check_doublet |-> TRUE,
     min_iter |-> DefaultMinIter, max_iter |-> DefaultMaxIter,
     epsilon_conv |-> DefaultEps, verbose |-> FALSE]

\* A call f(..., **kw): the keywords of kw replace the defaults.
WithKeywords(base, kw) ==
    [k \in DOMAIN base |-> IF k \in DOMAIN kw THEN kw[k] ELSE base[k]]

\* Python 3 round(n * K) for K = p/q: to the nearest integer, a tie to the
\* even one.
py_round(n, K) ==
    LET num == n * K[1]
        q == num \div K[2]
        r == num % K[2]
    IN  IF 2 * r < K[2] THEN q
        ELSE IF 2 * r > K[2] THEN q + 1
        ELSE IF q % 2 = 0 THEN q ELSE q + 1

\* A variant of the selection below that takes the first lowest value.
np_argmin(xs) ==
    CHOOSE i \in 0..(Len(xs) - 1) :
        /\ \A j \in 1..Len(xs) : xs[j] >= xs[i + 1]
        /\ \A j \in 1..i : xs[j] > xs[i + 1]
\* np.argmax: the first index (0-based) of the largest element.
np_argmax(xs) ==
    CHOOSE i \in 0..(Len(xs) - 1) :
        /\ \A j \in 1..Len(xs) : xs[j] <= xs[i + 1]
        /\ \A j \in 1..i : xs[j] < xs[i + 1]

\* np.sum(M, axis=0): the column sums of a matrix.
column_sums(M) ==
    [j \in 1..Len(M[1]) |-> SeqSum([c \in 1..Len(M) |-> M[c][j]])]

\* np.argsort(xs)[::-1]: the indices (0-based) by descending value.  The
\* order among equal values is not fixed by the sort: every order is a result.
argsort_reversed(xs) ==
    {p \in [1..Len(xs) -> 0..(Len(xs) - 1)] :
        /\ \A i, j \in 1..Len(xs) : i # j => p[i] # p[j]
        /\ \A i \in 1..(Len(xs) - 1) : xs[p[i] + 1] >= xs[p[i + 1] + 1]}

\* 10**-10 as a seed number, and line 66: entries below it are raised to it.
FloorVal == <<0, 1>>
raise_to_floor(M) ==
    [c \in 1..Len(M) |-> [j \in 1..Len(M[c]) |->
        IF SeedLess(M[c][j], FloorVal) THEN FloorVal ELSE M[c][j]]]

\* Line 65: res1['ID_prob'][:, _donor_idx[:n_donor]].
take_columns(M, idx, n) ==
    LET head == Slice(idx, 0, n)
    IN  [c \in 1..Len(M) |-> [j \in 1..Len(head) |-> M[c][head[j] + 1]]]

\* Lines 46-48: the arguments of a first-stage call.
run1_args(fa, n_run1, seed) ==
    WithKeywords(
        [core_defaults(fa.AD, fa.DP) EXCEPT
            !.n_donor = Some(n_run1), !.ID_prob_init = Some(seed),
            !.min_iter = Run1MinIter, !.max_iter = Run1MaxIter,
            !.verbose = FALSE, !.check_doublet = FALSE],
        fa.kwargs)

\* Lines 68-69: the arguments of the second call.
run2_args(fa, seed) ==
    WithKeywords(
        [core_defaults(fa.AD, fa.DP) EXCEPT
            !.n_donor = Some(fa.n_donor), !.ID_prob_init = Some(seed)],
        fa.kwargs)

\* K_amplify as a fraction <<p, q>>.
Amplify == {<<1, 1>>, <<3, 2>>}
Keywords == {[learn_theta |-> TRUE], [GT_prior |-> Some(SoftPrior(1, 2))]}

FlockArgs ==
    [AD : {x.AD : x \in CountData}, DP : {x.DP : x \in CountData},
     n_donor : 2..MaxDonor, K_amplify : Amplify, n_init : 1..MaxInit,
     check_doublet : BOOLEAN, kwargs : Keywords]

\* A call of vireo_flock.
InitFlock ==
    /\ pc = "idle" /\ CoreIdle
    /\ f_pc = "call"
    /\ f_args \in FlockArgs
    /\ n_donor_run1 = None /\ ID_prob_list = << >> /\ result = << >>
    /\ res1 = None /\ donor_idx = None /\ ID_prob_seed = None
    /\ core_calls = << >> /\ f_RV = None

\* Lines 22-30: the donor count and the random starts of the first stage.
Flock_Start ==
    /\ f_pc = "call"
    /\ LET n_run1 == py_round(f_args.n_donor, f_args.K_amplify)
       IN  /\ n_donor_run1' = n_run1
           /\ ID_prob_list' \in
                 [1..f_args.n_init ->
                     RandomIDMatrices(Len(f_args.AD[1]), n_run1)]
    /\ f_pc' = "run1"
    /\ UNCHANGED <<f_args, result, res1, donor_idx, ID_prob_seed, core_calls,
                   f_RV, coreVars>>

\* Lines 45-48: one first-stage run.
Flock_Run1 ==
    /\ f_pc = "run1"
    /\ LET a == run1_args(f_args, n_donor_run1,
                          SeedMatrix(ID_prob_list[Len(result) + 1]))
       IN  /\ core_calls' = Append(core_calls, a)
           /\ \E o \in vireo_core(a) :
                IF o.raised # NoExc
                THEN f_pc' = "raise" /\ UNCHANGED result
                ELSE /\ result' = Append(result, o)
                     /\ f_pc' = IF Len(result) + 1 = Len(ID_prob_list)
                                THEN "select" ELSE "run1"
    /\ UNCHANGED <<f_args, n_donor_run1, ID_prob_list, res1, donor_idx,
                   ID_prob_seed, f_RV, coreVars>>

\* Lines 50-67: the best run, its donors by use, the start of the second run.
Flock_Select ==
    /\ f_pc = "select"
    /\ LET LB_list == [i \in 1..Len(result) |-> result[i].LB_last]
           best == result[np_argmax(LB_list) + 1]
       IN  /\ res1' = best
           /\ \E idx \in argsort_reversed(column_sums(best.ID_prob)) :
                /\ donor_idx' = idx
                /\ ID_prob_seed' =
                      raise_to_floor(take_columns(SeedMatrix(best.ID_prob),
                                                  idx, f_args.n_donor))
    /\ f_pc' = "run2"
    /\ UNCHANGED <<f_args, n_donor_run1, ID_prob_list, result, core_calls,
                   f_RV, coreVars>>

\* Lines 68-76: the second run, whose result is returned.
Flock_Run2 ==
    /\ f_pc = "run2"
    /\ LET a == run2_args(f_args, ID_prob_seed)
       IN  /\ core_calls' = Append(core_calls, a)
           /\ \E o \in vireo_core(a) :
                IF o.raised # NoExc
                THEN f_pc' = "raise" /\ UNCHANGED <<res1, f_RV>>
                ELSE res1' = o /\ f_RV' = o /\ f_pc' = "done"
    /\ UNCHANGED <<f_args, n_donor_run1, ID_prob_list, result, donor_idx,
                   ID_prob_seed, coreVars>>

NextFlock == Flock_Start \/ Flock_Run1 \/ Flock_Select \/ Flock_Run2

SpecFlock == InitFlock /\ [][NextFlock]_vars

\* ================================================================ claims
InLoopOrAfter == pc \in {"loop", "check_doublet", "done"}
\* A round of the Iterate loop has just been completed.
RoundDone == pc \in {"loop", "check_doublet"} /\ it >= 0

\* C1: after every update cycle in which the Beta-parameter update runs,
\* theta_shapes equals theta_prior plus that cycle's expected successes and
\* failures; pseudo-counts do not accumulate from round to round.
C1_ThetaIsPriorPlusCounts ==
    (RoundDone /\ args.learn_theta) =>
        theta_shapes = get_theta_shapes(args.AD, args.DP, ID_prob, GT_prob,
                                        theta_prior)

\* The ELBO of loop round j (0-based), from the log of update_VB calls.
LBv(j) == calls[j + 1].LB_val
\* Round j improved the ELBO by less than the tolerance.
SmallStep(j) == LBv(j) - LBv(j - 1) < args.epsilon_conv
\* Round j did not lower the ELBO and improved it by less than the tolerance.
Converged(j) == LBv(j) >= LBv(j - 1) /\ SmallStep(j)
LoopEnded == pc \in {"check_doublet", "done"}
LB_listIsTrajectory ==
    pc = "done" =>
        /\ RV.LB_list = [k \in 1..(it + 1) |-> calls[k].LB_val]
        /\ Cardinality({k \in 1..Len(calls) : ~calls[k].check_doublet}) = it + 1

\* C2 (as claimed): the loop stops at the first round it > min_iter whose ELBO
\* improvement is below epsilon_conv, no round is executed after such a round,
\* and LB_list is the ELBO of rounds 0..it, one per executed round.
C2_StopsAtFirstSmallStep ==
    /\ pc = "loop" => \A j \in 1..it : j > args.min_iter => ~SmallStep(j)
    /\ LoopEnded =>
          /\ it = args.max_iter - 1 \/ (it > args.min_iter /\ SmallStep(it))
          /\ \A j \in 1..(it - 1) : j > args.min_iter => ~SmallStep(j)
    /\ LB_listIsTrajectory

\* C2 (amended): the loop stops at the first round it > min_iter, other than
\* the last round max_iter - 1, in which the ELBO did not decrease and improved
\* by less than epsilon_conv, and otherwise after round max_iter - 1; a round
\* whose ELBO decreased does not stop it.  No round is executed after the
\* stopping round and LB_list is the ELBO of rounds 0..it, one per round.
C2_StopsAtFirstConvergedStep ==
    /\ pc = "loop" => \A j \in 1..it : j > args.min_iter => ~Converged(j)
    /\ LoopEnded =>
          /\ it = args.max_iter - 1 \/ (it > args.min_iter /\ Converged(it))
          /\ \A j \in 1..(it - 1) : j > args.min_iter => ~Converged(j)
    /\ LB_listIsTrajectory

\* C2 witness: a call that returned after a break, before the last round.
C2_Witness ==
    /\ pc = "done" /\ it < args.max_iter - 1
    /\ it > args.min_iter /\ Converged(it)
    /\ Len(RV.LB_list) = it + 1

\* C3: a run whose ELBO decreased in some round, or that used up max_iter
\* rounds without meeting the tolerance, reports a warning whatever verbose
\* is, and still returns; a run whose last round met the tolerance without a
\* decrease reports none.
Warned ==
    \E k \in 1..Len(stdout) :
        stdout[k] \in {"Warning: Lower bound decreases!",
                       "Warning: VB did not converge!"}
Anomaly ==
    \/ \E j \in 1..it : LBv(j) < LBv(j - 1)
    \/ it = args.max_iter - 1 /\ ~(it >= 1 /\ Converged(it))
C3_AnomalyReported == pc = "done" => (Anomaly <=> Warned)

\* C4: doublet_prob has one column per donor pair that add_doublet_GT
\* appends, with check_doublet on or off; when off it is all zeros and
\* LB_doublet is absent.
PairColumns(GT) == Donors(add_doublet_GT(GT)) - Donors(GT)
C4_DoubletColumns ==
    pc = "done" =>
        /\ \A c \in 1..Len(RV.doublet_prob) :
              Len(RV.doublet_prob[c]) = PairColumns(RV.GT_prob)
        /\ ~args.check_doublet =>
              /\ RV.LB_doublet = None
              /\ \A c \in 1..Len(RV.doublet_prob) :
                    \A k \in 1..Len(RV.doublet_prob[c]) :
                        RV.doublet_prob[c][k] = 0

\* C5 (as claimed): every row of the returned ID_prob sums to 1, with and
\* without the doublet pass.
C5_IDRowsSumToOne ==
    pc = "done" => \A c \in 1..Len(RV.ID_prob) : SeqSum(RV.ID_prob[c]) = Unit

\* C5 (amended): the returned ID_prob has n_donor columns; without the doublet
\* pass every row sums to 1; after the doublet pass every row of ID_prob and
\* the same row of doublet_prob sum to 1 together.
C5_RowsSumWithDoublets ==
    pc = "done" =>
        \A c \in 1..Len(RV.ID_prob) :
            /\ Len(RV.ID_prob[c]) = n_donor
            /\ SeqSum(RV.ID_prob[c]) + SeqSum(RV.doublet_prob[c]) = Unit
            /\ ~args.check_doublet => SeqSum(RV.ID_prob[c]) = Unit

\* C5 witness: a returned record whose ID_prob row sums to less than 1 because
\* the doublet pass has put mass on a donor pair.
C5_Witness ==
    /\ pc = "done" /\ args.check_doublet
    /\ \E c \in 1..Len(RV.ID_prob) :
          SeqSum(RV.ID_prob[c]) < Unit /\ SeqSum(RV.doublet_prob[c]) > 0

\* C6: with learn_theta false theta_shapes keeps its initial value through
\* every update cycle and in the result; with learn_GT false and a GT_prior
\* covering all donors GT_prob stays GT_prior; for either check_doublet.
theta_initial ==
    IF args.theta_init # None THEN args.theta_init[1]
    ELSE IF args.theta_prior # None THEN args.theta_prior[1]
    ELSE theta_prior_default
PriorCoversDonors ==
    /\ args.GT_prior # None
    /\ NDim(args.GT_prior[1]) = 3
    /\ args.n_donor # None => Donors(args.GT_prior[1]) >= args.n_donor[1]
C6_LearnFlagsHoldFixed ==
    InLoopOrAfter =>
        /\ ~args.learn_theta =>
              /\ theta_shapes = theta_initial
              /\ pc = "done" => RV.theta_shapes = theta_initial
        /\ (~args.learn_GT /\ PriorCoversDonors) =>
              /\ GT_prob = args.GT_prior[1]
              /\ pc = "done" => RV.GT_prob = args.GT_prior[1]

\* C7: the call aborts before any round whenever neither n_donor nor the
\* donor axis of GT_prior provides at least 2 donors; otherwise Init completes
\* and iteration starts.
ProvidesTwoDonors ==
    \/ args.n_donor # None /\ args.n_donor[1] >= 2
    \/ /\ args.GT_prior # None
       /\ NDim(args.GT_prior[1]) = 3
       /\ Donors(args.GT_prior[1]) >= 2
C7_AbortsWithoutDonors ==
    pc # "call" =>
        IF ProvidesTwoDonors
        THEN pc \notin {"exit", "raise"} \/ calls # << >>
        ELSE pc \in {"exit", "raise"} /\ calls = << >>

\* C8: at the end of Init, on every path, the length of Psi, the columns of
\* ID_prob and the donor axes of GT_prob and GT_prior all equal n_donor.
C8_InitShapesAgree ==
    (pc = "loop" /\ it = -1) =>
        /\ Len(Psi) = n_donor
        /\ \A c \in 1..Len(ID_prob) : Len(ID_prob[c]) = n_donor
        /\ Donors(GT_prob) = n_donor
        /\ Donors(GT_prior) = n_donor

\* C9: vireo_flock runs all first-stage runs without doublet detection at
\* round(n_donor * K_amplify) donors, takes the run with the highest final
\* ELBO, and hands to the second run exactly n_donor columns of that run's
\* ID_prob: the columns of largest summed mass, by descending mass, every
\* entry below 10**-10 raised to 10**-10.
IsNearestInteger(r, n, K) ==
    LET gap == IF r * K[2] >= n * K[1] THEN r * K[2] - n * K[1]
               ELSE n * K[1] - r * K[2]
    IN  2 * gap <= K[2] /\ (2 * gap = K[2] => r % 2 = 0)
\* seed is built from run x: column j of seed is column donor_idx[j] of
\* x.ID_prob with its small entries raised, and donor_idx lists all columns
\* by descending summed mass.
SeedFromRun(seed, x) ==
    LET mass == column_sums(x.ID_prob)
        n_col == Len(mass)
    IN  /\ Len(donor_idx) = n_col
        /\ \A i, j \in 1..n_col : i # j => donor_idx[i] # donor_idx[j]
        /\ \A i \in 1..n_col : donor_idx[i] \in 0..(n_col - 1)
        /\ \A i \in 1..(n_col - 1) :
              mass[donor_idx[i] + 1] >= mass[donor_idx[i + 1] + 1]
        /\ Len(seed) = Len(x.ID_prob)
        /\ \A c \in 1..Len(seed) :
              /\ Len(seed[c]) = f_args.n_donor
              /\ \A j \in 1..f_args.n_donor :
                    LET v == SeedVal(x.ID_prob[c][donor_idx[j] + 1])
                    IN  /\ ~SeedLess(seed[c][j], FloorVal)
                        /\ SeedLess(v, FloorVal) => seed[c][j] = FloorVal
                        /\ ~SeedLess(v, FloorVal) => seed[c][j] = v
IsBestRun(i) == \A j \in 1..Len(result) : result[j].LB_last <= result[i].LB_last
C9_SeedFromBestRun ==
    /\ f_pc # "call" => IsNearestInteger(n_donor_run1, f_args.n_donor,
                                         f_args.K_amplify)
    /\ \A k \in 1..Len(core_calls) :
          k <= f_args.n_init =>
              /\ core_calls[k].check_doublet = FALSE
              /\ core_calls[k].n_donor = Some(n_donor_run1)
    /\ f_pc \in {"select", "run2", "done"} =>
          Len(result) = f_args.n_init /\ Len(core_calls) >= f_args.n_init
    /\ f_pc = "run2" => \E i \in 1..Len(result) : IsBestRun(i) /\ res1 = result[i]
    /\ f_pc \in {"run2", "done"} =>
          \E i \in 1..Len(result) :
              IsBestRun(i) /\ SeedFromRun(ID_prob_seed, result[i])
    /\ f_pc = "done" =>
          /\ Len(core_calls) = f_args.n_init + 1
          /\ core_calls[Len(core_calls)].ID_prob_init = Some(ID_prob_seed)
          /\ core_calls[Len(core_calls)].n_donor = Some(f_args.n_donor)

\* C9 witness: a returned call with two first-stage runs of which the second
\* is strictly the best, more first-stage donors than n_donor, and a start for
\* the second run with an entry raised to the floor.
C9_Witness ==
    /\ f_pc = "done" /\ f_args.n_init = 2
    /\ result[1].LB_last < result[2].LB_last
    /\ n_donor_run1 > f_args.n_donor
    /\ \E c \in 1..Len(ID_prob_seed) : \E j \in 1..Len(ID_prob_seed[c]) :
          ID_prob_seed[c][j] = FloorVal
    /\ \E c \in 1..Len(ID_prob_seed) : \E j \in 1..Len(ID_prob_seed[c]) :
          ID_prob_seed[c][j] # FloorVal

\* C10: the check_doublet argument of vireo_flock decides the doublet pass of
\* the returned run: off, doublet_prob is all zeros and LB_doublet is absent;
\* on, the doublet pass has run.
C10_DoubletFlagControls ==
    f_pc = "done" =>
        /\ core_calls[Len(core_calls)].check_doublet = f_args.check_doublet
        /\ f_args.check_doublet => f_RV.LB_doublet # None
        /\ ~f_args.check_doublet =>
              /\ f_RV.LB_doublet = None
              /\ \A c \in 1..Len(f_RV.doublet_prob) :
                    \A k \in 1..Len(f_RV.doublet_prob[c]) :
                        f_RV.doublet_prob[c][k] = 0

\* C11: with a GT_prior supplied that is complete or covers fewer donors than
\* n_donor, the initial ID_prob (random or the caller's ID_prob_init) has no
\* influence on a run: whatever the start, Init ends in the same locals apart
\* from ID_prob, and the first round yields the same ID_prob, GT_prob,
\* theta_shapes and ELBO; every later round and the result are computed from
\* those alone.
PriorWithinDonors ==
    /\ args.GT_prior # None
    /\ NDim(args.GT_prior[1]) = 3
    /\ args.n_donor # None => Donors(args.GT_prior[1]) <= args.n_donor[1]
\* The starts a caller may hand over for this call, and no start at all.
Starts ==
    LET k == IF args.n_donor # None THEN args.n_donor[1]
             ELSE Donors(args.GT_prior[1])
    IN  {None} \cup {Some(SeedMatrix(m)) : m \in IDMatrices(Len(args.AD[1]), k)}
\* The locals at the end of Init other than ID_prob.
NoID(L) ==
    IF L.status # "ok" THEN [status |-> L.status, stdout |-> L.stdout]
    ELSE [status |-> L.status, stdout |-> L.stdout, n_donor |-> L.n_donor,
          theta_prior |-> L.theta_prior, theta_shapes |-> L.theta_shapes,
          Psi |-> L.Psi, GT_prior |-> L.GT_prior, GT_prob |-> L.GT_prob,
          learn_GT |-> L.learn_GT]
\* What a call with arguments a can have computed when its first round ends.
FirstRound(a) ==
    UNION {
      IF L.status # "ok" THEN {[init |-> NoID(L)]}
      ELSE {[init |-> NoID(L), round |-> o] :
            o \in update_VB(a.AD, a.DP, L.GT_prob, L.theta_shapes,
                            L.theta_prior, L.GT_prior, L.Psi, a.doublet_prior,
                            L.learn_GT, a.learn_theta, FALSE)}
      : L \in vireo_core_Init(a) }
InitLocals ==
    [status |-> "ok", stdout |-> << >>, n_donor |-> n_donor,
     theta_prior |-> theta_prior, theta_shapes |-> theta_shapes, Psi |-> Psi,
     GT_prior |-> GT_prior, GT_prob |-> GT_prob, learn_GT |-> learn_GT]
C11_StartHasNoInfluence ==
    PriorWithinDonors =>
        /\ pc = "call" =>
              \A x \in Starts :
                  FirstRound([args EXCEPT !.ID_prob_init = x]) = FirstRound(args)
        /\ (pc = "loop" /\ it = -1) =>
              \A x \in Starts :
                  \A L \in vireo_core_Init([args EXCEPT !.ID_prob_init = x]) :
                      NoID(L) = [InitLocals EXCEPT !.stdout = stdout]
        /\ (pc \in {"loop", "check_doublet"} /\ it = 0) =>
              \A x \in Starts :
                  \E r \in FirstRound([args EXCEPT !.ID_prob_init = x]) :
                      /\ r.init.status = "ok" /\ r.round.raised = NoExc
                      /\ r.init.n_donor = n_donor /\ r.init.Psi = Psi
                      /\ r.init.theta_prior = theta_prior
                      /\ r.init.GT_prior = GT_prior
                      /\ r.init.learn_GT = learn_GT
                      /\ r.round.ID_prob2 = ID_prob
                      /\ r.round.GT_prob = GT_prob
                      /\ r.round.theta_shapes = theta_shapes
                      /\ r.round.LB_val = LB[1]

\* C11 witness: the first round of a call is over whose supplied prior covers
\* fewer donors than n_donor, and for which the starts differ in the initial
\* ID_prob they lead to and in nothing else.
StartResults ==
    UNION {vireo_core_Init([args EXCEPT !.ID_prob_init = x]) : x \in Starts}
C11_Witness ==
    /\ pc = "loop" /\ it = 0
    /\ PriorWithinDonors /\ args.n_donor # None
    /\ Donors(args.GT_prior[1]) < args.n_donor[1]
    /\ Cardinality({L.ID_prob : L \in StartResults}) > 1
    /\ Cardinality({NoID(L) : L \in StartResults}) = 1

====
